---- MODULE Spec2Model ----
(***************************************************************************)
(* useKbdList (src/src/index.tsx): keyboard and pointer navigation of a    *)
(* one-dimensional list.  The hook keeps three pieces of React state       *)
(* (hoverIndex, activeIndex, activeElement), three passive effects (reset  *)
(* on length change, resolve the active element, scroll it into view) and  *)
(* three handlers (handleKeypress, handleMove, handleLeave) plus the       *)
(* exposed setActiveIndex.                                                 *)
(*                                                                         *)
(* React is modelled by what the hook relies on: the state updates a       *)
(* handler makes are applied together by the render that follows it; after *)
(* the commit of a render the effects whose dependencies changed run in    *)
(* declaration order, each reading the values of that render, and the      *)
(* updates they make are applied by one more render.  Events are delivered *)
(* one at a time, after the previous one has settled.                      *)
(***************************************************************************)
EXTENDS Integers, Sequences, FiniteSets, TLC

\* Largest list length explored.
MaxLen == 3

\* Largest height of an item and of the container explored.
MaxSize == 2

\* Arguments a consumer may hand to the exposed setActiveIndex.
SetArgs == (-1) .. MaxLen

\* enum Keys, and one key outside it (the switch has no case for it).
Keys == {"ArrowUp", "ArrowDown", "PageUp", "PageDown", "Home", "End"}
AnyKey == Keys \cup {"Escape"}

\* Values of listItemIndexAttribute: unset, or an attribute name.
AttrNames == {"", "data-index"}

\* null, and the element carrying index i in generation g of the page.
null == <<>>
Element(i, g) == <<i, g>>

\* No queued state update.
NoUpdates == [activeIndex |-> {}, hoverIndex |-> {}, activeElement |-> {}]

VARIABLES
    listLength,             \* the listLength argument of the current render
    listItemIndexAttribute, \* the listItemIndexAttribute argument
    hoverIndex,             \* useState(-1)
    activeIndex,            \* useState(0)
    activeElement,          \* useState(null)
    container,              \* ref.current is attached
    rendered,               \* the page holds the elements of 0 .. rendered-1
    domGen,                 \* generation of the page's elements
    itemHeight,             \* offsetHeight of each list item of the page
    containerHeight,        \* offsetHeight of the container
    deps,                   \* dependency values of the last effect run
    pc,                     \* "effects" after a commit, else "idle"
    scrolls,                \* container.scroll calls since the last event
    last                    \* the last event delivered and the state it met

vars == <<listLength, listItemIndexAttribute, hoverIndex, activeIndex,
          activeElement, container, rendered, domGen, itemHeight,
          containerHeight, deps, pc, scrolls, last>>

----------------------------------------------------------------------------
\* JavaScript's % : the remainder takes the sign of the dividend.
JSRem(a, n) == IF a >= 0 THEN a % n ELSE -((-a) % n)

\* Number(element.getAttribute(attr)) for the attribute values explored:
\* decimal digits give the number, "" gives 0, other text gives NaN.
AttrValues == {"0", "1", "2", "3", "4", "", "abc"}
IsNaN(s) == s = "abc"
Number(s) ==
    CASE s = "0" -> 0
      [] s = "1" -> 1
      [] s = "2" -> 2
      [] s = "3" -> 3
      [] s = "4" -> 4
      [] s = ""  -> 0
      [] OTHER   -> 0

\* getSelectedElement: document.querySelector(`[attr="index"]`).
getSelectedElement(index) ==
    IF listItemIndexAttribute = "" THEN null
    ELSE IF index \in 0 .. (rendered - 1) THEN Element(index, domGen)
    ELSE null

----------------------------------------------------------------------------
\* The event record kept for the properties: the event (for a key event its
\* key, for a pointer move the attribute text of its target), the indices it
\* met, the index the handleMove just before it resolved to (-1 if none did),
\* and the state setters its handler called.
Event(op, key, arg, q) ==
    [op |-> op, key |-> key, arg |-> arg,
     activeIndex |-> activeIndex, hoverIndex |-> hoverIndex,
     afterMove |-> IF last.op = "move" THEN last.arg ELSE -1,
     updates |-> q]

\* State updates change something when a value differs from the current one.
Dirty(q) ==
    \/ \E v \in q.activeIndex : v # activeIndex
    \/ \E v \in q.hoverIndex : v # hoverIndex
    \/ \E v \in q.activeElement : v # activeElement

\* The render that follows a batch of updates: the last value set wins.
Apply(q, cur) == IF q = {} THEN cur ELSE CHOOSE v \in q : TRUE

Render(q) ==
    /\ activeIndex' = Apply(q.activeIndex, activeIndex)
    /\ hoverIndex' = Apply(q.hoverIndex, hoverIndex)
    /\ activeElement' = Apply(q.activeElement, activeElement)
    /\ pc' = IF Dirty(q) THEN "effects" ELSE "idle"

\* A handler ran with updates q: they are rendered and committed.
Dispatch(op, key, arg, q) ==
    /\ Render(q)
    /\ scrolls' = <<>>
    /\ last' = Event(op, key, arg, q)
    /\ UNCHANGED <<listLength, listItemIndexAttribute, container, rendered,
                   domGen, itemHeight, containerHeight, deps>>

----------------------------------------------------------------------------
\* Faulty variants of the switch on e.key, used to test the properties:
\* ArrowDown without the remainder,
NextIndexNoWrap(key) ==
    LET isHovering == hoverIndex >= 0 IN
    CASE key = "ArrowUp" ->
            IF ~isHovering
            THEN JSRem(activeIndex - 1 + listLength, listLength)
            ELSE JSRem(hoverIndex - 1 + listLength, listLength)
      [] key = "ArrowDown" ->
            IF ~isHovering THEN activeIndex + 1 ELSE hoverIndex + 1
      [] key \in {"PageUp", "Home"} -> 0
      [] key \in {"PageDown", "End"} -> listLength - 1
      [] OTHER -> -1

\* the arrows always moving from activeIndex,
NextIndexFromActive(key) ==
    CASE key = "ArrowUp" -> JSRem(activeIndex - 1 + listLength, listLength)
      [] key = "ArrowDown" -> JSRem(activeIndex + 1, listLength)
      [] key \in {"PageUp", "Home"} -> 0
      [] key \in {"PageDown", "End"} -> listLength - 1
      [] OTHER -> -1

\* ArrowUp without adding listLength before the remainder,
NextIndexUpNoAdd(key) ==
    LET isHovering == hoverIndex >= 0 IN
    CASE key = "ArrowUp" ->
            IF ~isHovering
            THEN JSRem(activeIndex - 1, listLength)
            ELSE JSRem(hoverIndex - 1, listLength)
      [] key = "ArrowDown" ->
            IF ~isHovering
            THEN JSRem(activeIndex + 1, listLength)
            ELSE JSRem(hoverIndex + 1, listLength)
      [] key \in {"PageUp", "Home"} -> 0
      [] key \in {"PageDown", "End"} -> listLength - 1
      [] OTHER -> -1

\* PageDown and End going one past the last index.
NextIndexEndPastLast(key) ==
    LET isHovering == hoverIndex >= 0 IN
    CASE key = "ArrowUp" ->
            IF ~isHovering
            THEN JSRem(activeIndex - 1 + listLength, listLength)
            ELSE JSRem(hoverIndex - 1 + listLength, listLength)
      [] key = "ArrowDown" ->
            IF ~isHovering
            THEN JSRem(activeIndex + 1, listLength)
            ELSE JSRem(hoverIndex + 1, listLength)
      [] key \in {"PageUp", "Home"} -> 0
      [] key \in {"PageDown", "End"} -> listLength
      [] OTHER -> -1

\* handleKeypress: the switch on e.key.
NextIndex(key) ==
    LET isHovering == hoverIndex >= 0 IN
    CASE key = "ArrowUp" ->
            IF ~isHovering
            THEN JSRem(activeIndex - 1 + listLength, listLength)
            ELSE JSRem(hoverIndex - 1 + listLength, listLength)
      [] key = "ArrowDown" ->
            IF ~isHovering
            THEN JSRem(activeIndex + 1, listLength)
            ELSE JSRem(hoverIndex + 1, listLength)
      [] key \in {"PageUp", "Home"} -> 0
      [] key \in {"PageDown", "End"} -> listLength - 1
      [] OTHER -> -1

\* Faulty variant: the empty-list check guards the arrow keys only.
KeypressUpdatesLateCheck(key) ==
    IF key \in {"PageUp", "Home"}
    THEN [activeIndex |-> {0}, hoverIndex |-> {-1}, activeElement |-> {}]
    ELSE IF listLength = 0 THEN NoUpdates
    ELSE LET nextIndex == NextIndex(key) IN
         IF nextIndex = -1 THEN NoUpdates
         ELSE [activeIndex |-> {nextIndex}, hoverIndex |-> {-1},
               activeElement |-> {}]

\* handleKeypress: the early returns and the two state setters.
KeypressUpdates(key) ==
    IF listLength = 0 THEN NoUpdates
    ELSE LET nextIndex == NextIndex(key) IN
         IF nextIndex = -1 THEN NoUpdates
         ELSE [activeIndex |-> {nextIndex}, hoverIndex |-> {-1},
               activeElement |-> {}]

handleKeypress(key) ==
    /\ pc = "idle"
    /\ Dispatch("key", key, 0, KeypressUpdates(key))

----------------------------------------------------------------------------
\* A pointer target: <<>> when neither it nor an ancestor carries the index
\* attribute, else <<s>> with s the attribute value of the closest carrier.
\* An element carrying a decimal index is one the page holds.
Targets ==
    {<<>>} \cup {<<s>> : s \in {"", "abc"}}
           \cup {<<s>> : s \in {t \in AttrValues :
                           ~IsNaN(t) /\ t # "" /\ Number(t) < rendered}}

\* Faulty variant: no comparison with the current hoverIndex.
MoveUpdatesNoGuard(target) ==
    IF listItemIndexAttribute = "" THEN NoUpdates
    ELSE IF target = <<>> THEN NoUpdates
    ELSE LET listItemIndex == Number(target[1]) IN
         IF IsNaN(target[1]) THEN NoUpdates
         ELSE [activeIndex |-> {listItemIndex}, hoverIndex |-> {listItemIndex},
               activeElement |-> {}]

\* handleMove.  With listItemIndexAttribute unset the selector "[]" is
\* rejected by closest() and the handler ends without an update.
MoveUpdates(target) ==
    IF listItemIndexAttribute = "" THEN NoUpdates
    ELSE IF target = <<>> THEN NoUpdates
    ELSE LET listItemIndex == Number(target[1]) IN
         IF IsNaN(target[1]) \/ hoverIndex = listItemIndex THEN NoUpdates
         ELSE [activeIndex |-> {listItemIndex}, hoverIndex |-> {listItemIndex},
               activeElement |-> {}]

\* The attribute text of a target, for the event record.
TargetText(target) == IF target = <<>> THEN "(none)" ELSE target[1]

\* The index a target resolves to, -1 when it resolves to none.
Resolved(target) ==
    IF listItemIndexAttribute = "" \/ target = <<>> THEN -1
    ELSE IF IsNaN(target[1]) THEN -1
    ELSE Number(target[1])

handleMove(target) ==
    /\ pc = "idle"
    /\ Dispatch("move", TargetText(target), Resolved(target),
                MoveUpdates(target))

\* handleLeave: setHoverIndex(-2).
LeaveUpdates == [NoUpdates EXCEPT !.hoverIndex = {-2}]

handleLeave ==
    /\ pc = "idle"
    /\ Dispatch("leave", "", 0, LeaveUpdates)

\* The setActiveIndex the hook returns: the state setter itself.
SetActiveIndexUpdates(index) == [NoUpdates EXCEPT !.activeIndex = {index}]

setActiveIndex(index) ==
    /\ pc = "idle"
    /\ Dispatch("set", "", index, SetActiveIndexUpdates(index))

\* The consumer renders the hook with another listLength; the commit of that
\* render replaces the page's list items.
ChangeLength(n) ==
    /\ pc = "idle"
    /\ n # listLength
    /\ listLength' = n
    /\ rendered' \in 0 .. MaxLen
    /\ domGen' \in {0, 1}
    /\ pc' = "effects"
    /\ scrolls' = <<>>
    /\ last' = Event("length", "", n, NoUpdates)
    /\ UNCHANGED <<listItemIndexAttribute, hoverIndex, activeIndex,
                   activeElement, container, itemHeight, containerHeight,
                   deps>>

----------------------------------------------------------------------------
\* The dependency values of this render.
CurrentDeps ==
    [mounted |-> TRUE, listLength |-> listLength, activeIndex |-> activeIndex,
     hoverIndex |-> hoverIndex, activeElement |-> activeElement]

\* Faulty variant: the reset effect with an empty dependency array.
ResetDepsOnMount == ~deps.mounted

\* useEffect(() => setActiveIndex(0), [listLength])
ResetDeps == ~deps.mounted \/ deps.listLength # listLength
ResetEffect == IF ResetDeps THEN {0} ELSE {}

\* useEffect(resolve, [activeIndex, listLength, getSelectedElement])
ResolveDeps ==
    \/ ~deps.mounted
    \/ deps.activeIndex # activeIndex
    \/ deps.listLength # listLength
\* Faulty variant: the element is stored also when the locator finds none.
ResolveEffectClears ==
    IF ResolveDeps THEN {getSelectedElement(activeIndex)} ELSE {}

ResolveEffect ==
    IF ResolveDeps
    THEN LET elem == getSelectedElement(activeIndex) IN
         IF elem = null THEN {} ELSE {elem}
    ELSE {}

\* Faulty variants: the scroll effect without a dependency array,
ScrollDepsAlways == TRUE

\* without the comparison of activeIndex with hoverIndex,
ScrollGuardNoHoverCheck ==
    ~ ( \/ ~container
        \/ activeIndex < 0
        \/ activeElement = null
        \/ hoverIndex = -2 )

\* without the test for the pointer having left.
ScrollGuardNoLeaveCheck ==
    ~ ( \/ ~container
        \/ activeIndex < 0
        \/ activeIndex = hoverIndex
        \/ activeElement = null )

\* Faulty variant: the scroll effect not depending on activeElement.
ScrollDepsNoElement ==
    \/ ~deps.mounted
    \/ deps.activeIndex # activeIndex
    \/ deps.hoverIndex # hoverIndex

\* useEffect(scroll, [activeIndex, hoverIndex, activeElement])
ScrollDeps ==
    \/ ~deps.mounted
    \/ deps.activeIndex # activeIndex
    \/ deps.hoverIndex # hoverIndex
    \/ deps.activeElement # activeElement
ScrollGuard ==
    ~ ( \/ ~container
        \/ activeIndex < 0
        \/ activeIndex = hoverIndex
        \/ activeElement = null
        \/ hoverIndex = -2 )

\* The layout: the list items are stacked from the top of the container's
\* content, each itemHeight high; the container is their offsetParent.  An
\* element the page no longer holds has offsetTop 0 and offsetHeight 0.
Attached(elem) ==
    /\ elem # null
    /\ elem[1] < rendered
    /\ elem[2] = domGen
OffsetHeight(elem) == IF Attached(elem) THEN itemHeight ELSE 0
OffsetTop(elem) == IF Attached(elem) THEN elem[1] * itemHeight ELSE 0

\* Faulty variant: the element's height is not added.
ScrollTopNoHeight == OffsetTop(activeElement) - containerHeight

\* top: top - containerHeight + height
ScrollTop ==
    OffsetTop(activeElement) - containerHeight + OffsetHeight(activeElement)

ScrollEffect ==
    IF ScrollDeps /\ ScrollGuard
    THEN << [element |-> activeElement, activeIndex |-> activeIndex,
             hoverIndex |-> hoverIndex, top |-> ScrollTop,
             behavior |-> "smooth"] >>
    ELSE <<>>

\* The passive effects of one commit, in declaration order; each reads the
\* values of the render it belongs to, and the updates they make are rendered.
EffectUpdates ==
    [activeIndex |-> ResetEffect, hoverIndex |-> {},
     activeElement |-> ResolveEffect]

RunEffects ==
    /\ pc = "effects"
    /\ scrolls' = scrolls \o ScrollEffect
    /\ deps' = CurrentDeps
    /\ Render(EffectUpdates)
    /\ UNCHANGED <<listLength, listItemIndexAttribute, container, rendered,
                   domGen, itemHeight, containerHeight, last>>

----------------------------------------------------------------------------
\* The first render: useState initial values, effects of the mount pending.
\* The sizes are fixed here; SpecLayout varies them.
Init ==
    /\ listLength \in 0 .. MaxLen
    /\ listItemIndexAttribute \in AttrNames
    /\ hoverIndex = -1
    /\ activeIndex = 0
    /\ activeElement = null
    /\ container \in BOOLEAN
    /\ rendered \in 0 .. MaxLen
    /\ domGen = 0
    /\ itemHeight = 1
    /\ containerHeight = MaxSize
    /\ deps = [mounted |-> FALSE, listLength |-> 0, activeIndex |-> 0,
               hoverIndex |-> -1, activeElement |-> null]
    /\ pc = "effects"
    /\ scrolls = <<>>
    /\ last = [op |-> "mount", key |-> "", arg |-> 0,
               activeIndex |-> 0, hoverIndex |-> -1, afterMove |-> -1,
               updates |-> NoUpdates]

Next ==
    \/ \E key \in AnyKey : handleKeypress(key)
    \/ \E target \in Targets : handleMove(target)
    \/ handleLeave
    \/ \E index \in SetArgs : setActiveIndex(index)
    \/ \E n \in 0 .. MaxLen : ChangeLength(n)
    \/ RunEffects

Spec == Init /\ [][Next]_vars

\* The consumer keeps the contract of section 3: setActiveIndex is handed
\* indices of the list only, and the pointer resolves indices of the list only.
handleMoveInList(target) ==
    /\ Resolved(target) < listLength
    /\ handleMove(target)

NextContract ==
    \/ \E key \in AnyKey : handleKeypress(key)
    \/ \E target \in Targets : handleMoveInList(target)
    \/ handleLeave
    \/ \E index \in 0 .. (listLength - 1) : setActiveIndex(index)
    \/ \E n \in 0 .. MaxLen : ChangeLength(n)
    \/ RunEffects

SpecContract == Init /\ [][NextContract]_vars

\* The scenario of section 8: a list of five items, the page holding at
\* least the first three; ArrowDown five times, then the pointer over the
\* item with index 2, then ArrowUp.  The position in the scenario is read
\* from the record of the last event.
InitTrace ==
    /\ listLength = 5
    /\ listItemIndexAttribute = "data-index"
    /\ hoverIndex = -1
    /\ activeIndex = 0
    /\ activeElement = null
    /\ container \in BOOLEAN
    /\ rendered \in 3 .. 5
    /\ domGen \in {0, 1}
    /\ itemHeight = 1
    /\ containerHeight = MaxSize
    /\ deps = [mounted |-> FALSE, listLength |-> 0, activeIndex |-> 0,
               hoverIndex |-> -1, activeElement |-> null]
    /\ pc = "effects"
    /\ scrolls = <<>>
    /\ last = [op |-> "mount", key |-> "", arg |-> 0,
               activeIndex |-> 0, hoverIndex |-> -1, afterMove |-> -1,
               updates |-> NoUpdates]

TraceDown ==
    /\ \/ last.op = "mount"
       \/ last.op = "key" /\ last.key = "ArrowDown" /\ activeIndex # 0
    /\ handleKeypress("ArrowDown")

TraceMove ==
    /\ last.op = "key" /\ last.key = "ArrowDown" /\ activeIndex = 0
    /\ handleMove(<<"2">>)

TraceUp ==
    /\ last.op = "move"
    /\ handleKeypress("ArrowUp")

NextTrace == TraceDown \/ TraceMove \/ TraceUp \/ RunEffects

SpecTrace == InitTrace /\ [][NextTrace]_vars

\* The scroll offset over the layouts: items and container of every height
\* up to MaxSize, the container attached, the six keys pressed.
InitLayout ==
    /\ listLength \in 1 .. MaxLen
    /\ listItemIndexAttribute = "data-index"
    /\ hoverIndex = -1
    /\ activeIndex = 0
    /\ activeElement = null
    /\ container = TRUE
    /\ rendered \in 0 .. MaxLen
    /\ domGen = 0
    /\ itemHeight \in 0 .. MaxSize
    /\ containerHeight \in 0 .. MaxSize
    /\ deps = [mounted |-> FALSE, listLength |-> 0, activeIndex |-> 0,
               hoverIndex |-> -1, activeElement |-> null]
    /\ pc = "effects"
    /\ scrolls = <<>>
    /\ last = [op |-> "mount", key |-> "", arg |-> 0,
               activeIndex |-> 0, hoverIndex |-> -1, afterMove |-> -1,
               updates |-> NoUpdates]

NextLayout ==
    \/ \E key \in Keys : handleKeypress(key)
    \/ RunEffects

SpecLayout == InitLayout /\ [][NextLayout]_vars

\* The hook with the container attached and the index attribute given; the
\* effects a render leaves pending are always run.
InitAttached ==
    /\ Init
    /\ container
    /\ listItemIndexAttribute = "data-index"

SpecAttached == InitAttached /\ [][Next]_vars /\ WF_vars(RunEffects)

----------------------------------------------------------------------------
\* Properties.

Settled == pc = "idle"
ScrollIssued == Len(scrolls') > Len(scrolls)
KeyEvent(keys) == pc = "idle" /\ last'.op = "key" /\ last'.key \in keys
StateKept == UNCHANGED <<activeIndex, hoverIndex, activeElement>>

\* C1: under the consumer's contract (setActiveIndex and handleMove only see
\* indices of the list), once an event is fully processed the active index
\* is an index of the list whenever the list is not empty.
C1_ActiveIndexInRange ==
    (Settled /\ listLength > 0) => activeIndex \in 0 .. (listLength - 1)

\* A key event that met a hover index left over from a longer list.
C1_Witness ==
    /\ Settled
    /\ last.op = "key"
    /\ last.key \in {"ArrowUp", "ArrowDown"}
    /\ listLength > 0
    /\ last.hoverIndex >= listLength
    /\ activeIndex \in 0 .. (listLength - 1)

\* C2: an ArrowUp/ArrowDown key event that meets the hover index k a
\* handleMove has set (k an index of the list) moves the active index to
\* (k - 1 + length) mod length, resp. (k + 1) mod length, whatever the active
\* index was, and leaves the hover index at -1.
C2_PointerPrecedence ==
    \A k \in 0 .. (listLength - 1) :
        (last.op = "key" /\ last.hoverIndex = k) =>
            /\ last.key = "ArrowUp" =>
                  /\ activeIndex = (k - 1 + listLength) % listLength
                  /\ hoverIndex = -1
            /\ last.key = "ArrowDown" =>
                  /\ activeIndex = (k + 1) % listLength
                  /\ hoverIndex = -1

\* ArrowUp right after a handleMove onto the first item of a longer list.
C2_Witness ==
    /\ last.op = "key"
    /\ last.key = "ArrowUp"
    /\ last.afterMove = 0
    /\ last.hoverIndex = 0
    /\ listLength >= 2
    /\ activeIndex = listLength - 1
    /\ hoverIndex = -1

\* C3: with no hover (hoverIndex < 0) and the active index i in the list of
\* length n > 0, ArrowUp gives n-1 from 0 and i-1 otherwise, ArrowDown gives
\* 0 from n-1 and i+1 otherwise.
C3_Wraparound ==
    \A i \in 0 .. (listLength - 1) :
        (last.op = "key" /\ last.hoverIndex < 0 /\ last.activeIndex = i) =>
            /\ last.key = "ArrowUp" =>
                  activeIndex = IF i = 0 THEN listLength - 1 ELSE i - 1
            /\ last.key = "ArrowDown" =>
                  activeIndex = IF i = listLength - 1 THEN 0 ELSE i + 1

\* ArrowUp from the first item of a longer list, the pointer having left.
C3_Witness ==
    /\ last.op = "key"
    /\ last.key = "ArrowUp"
    /\ last.hoverIndex = -2
    /\ last.activeIndex = 0
    /\ listLength >= 2
    /\ activeIndex = listLength - 1

\* C4: in a list of length n > 0, PageUp and Home set the active index to 0
\* and PageDown and End set it to n-1, whatever the active and hover indices
\* were; the same key once more leaves the active index where it is.
C4_HomeEnd ==
    [][ (KeyEvent({"PageUp", "Home", "PageDown", "End"}) /\ listLength > 0) =>
            /\ last'.key \in {"PageUp", "Home"} => activeIndex' = 0
            /\ last'.key \in {"PageDown", "End"} =>
                  activeIndex' = listLength - 1
            /\ (last.op = "key" /\ last.key = last'.key) =>
                  activeIndex' = activeIndex ]_vars

\* End pressed while the pointer is over an item that is not the last one.
C4_Witness ==
    /\ last.op = "key"
    /\ last.key = "End"
    /\ last.hoverIndex >= 0
    /\ last.activeIndex < listLength - 1
    /\ activeIndex = listLength - 1

\* C5: once a change of the list length is processed the active index is 0.
C5_LengthChangeReset ==
    (Settled /\ last.op = "length") => activeIndex = 0

\* The length changed while an item other than the first was active and the
\* pointer was over an item.
C5_Witness ==
    /\ Settled
    /\ last.op = "length"
    /\ last.activeIndex > 0
    /\ last.hoverIndex >= 0
    /\ activeIndex = 0

\* C6: with an empty list a key event for one of the six keys calls no state
\* setter, changes none of activeIndex, hoverIndex, activeElement, and runs
\* no effect, so issues no scroll request.
C6_EmptyListNoOp ==
    [][ (KeyEvent(Keys) /\ listLength = 0) =>
            /\ StateKept
            /\ last'.updates = NoUpdates
            /\ pc' = "idle"
            /\ scrolls' = <<>> ]_vars

\* Home pressed on an empty list in a state a transition would have changed.
C6_Witness ==
    /\ listLength = 0
    /\ last.op = "key"
    /\ last.key = "Home"
    /\ activeIndex > 0
    /\ hoverIndex = -2

\* C7: a scroll request is issued only in a state where the container is
\* attached, activeIndex >= 0, activeIndex # hoverIndex, activeElement is
\* present and hoverIndex # -2.
C7_ScrollGuarded ==
    [][ ScrollIssued =>
            /\ container
            /\ activeIndex >= 0
            /\ activeIndex # hoverIndex
            /\ activeElement # null
            /\ hoverIndex # -2 ]_vars

\* A scroll request has been issued after a key event.
C7_Witness ==
    /\ last.op = "key"
    /\ Len(scrolls) > 0

\* C8, as stated: an event that leaves the active index at its previous
\* value causes no scroll request.
C8_ScrollOnlyOnActiveIndexChange ==
    (Settled /\ last.op # "mount" /\ activeIndex = last.activeIndex) =>
        scrolls = <<>>

\* C8, amended: a scroll request is issued only by an effect run for which
\* activeIndex, hoverIndex or activeElement differs from the previous run
\* (or by the first run), and never while a handleLeave is processed.
C8_ScrollOnlyOnDepsChange ==
    [][ ScrollIssued =>
            /\ \/ ~deps.mounted
               \/ deps.activeIndex # activeIndex
               \/ deps.hoverIndex # hoverIndex
               \/ deps.activeElement # activeElement
            /\ last.op # "leave" ]_vars

\* A key event that only reset the hover index has caused a scroll request.
C8_Witness ==
    /\ Settled
    /\ last.op = "key"
    /\ activeIndex = last.activeIndex
    /\ last.hoverIndex >= 0
    /\ hoverIndex = -1
    /\ Len(scrolls) > 0

\* C9: while hoverIndex is -2 no scroll request is issued: not by handleLeave
\* and not by a later setActiveIndex, length change or re-resolution.
C9_LeaveSuppressesScroll ==
    (hoverIndex = -2 \/ last.op = "leave") => scrolls = <<>>

\* After the pointer left, setActiveIndex or a length change moved the active
\* index to a resolved element of an attached container.
C9_Witness ==
    /\ Settled
    /\ hoverIndex = -2
    /\ last.op \in {"set", "length"}
    /\ last.hoverIndex = -2
    /\ container
    /\ activeIndex >= 0
    /\ activeIndex # last.activeIndex
    /\ activeElement = Element(activeIndex, domGen)

\* C10: a handleMove resolving to the index the handleMove just before it
\* resolved to calls no state setter, changes none of activeIndex,
\* hoverIndex, activeElement and runs no effect, so issues no scroll request.
C10_RedundantHover ==
    [][ ( /\ pc = "idle"
          /\ last.op = "move"
          /\ last.arg >= 0
          /\ last'.op = "move"
          /\ last'.arg = last.arg ) =>
            /\ StateKept
            /\ last'.updates = NoUpdates
            /\ pc' = "idle"
            /\ scrolls' = <<>> ]_vars

\* A second handleMove over the same item.
C10_Witness ==
    /\ last.op = "move"
    /\ last.arg >= 0
    /\ last.afterMove = last.arg
    /\ hoverIndex = last.arg

\* C11, as stated: the hover index is an index of the list, -1 or -2, the
\* pointer having resolved only indices valid at the time of the move.
C11_HoverIndexValid ==
    Settled => hoverIndex \in (0 .. (listLength - 1)) \cup {-1, -2}

\* C12, as stated: a handleMove whose target has no carrier of the index
\* attribute, or whose attribute text is not an integer (here: "abc" and the
\* empty text), changes none of activeIndex, hoverIndex, activeElement.
C12_InvalidTargetIgnored ==
    [][ ( /\ pc = "idle"
          /\ last'.op = "move"
          /\ last'.key \in {"(none)", "abc", ""} ) => StateKept ]_vars

\* C13: an effect run that sees activeIndex or listLength changed (or the
\* first run) re-resolves activeElement: it becomes the element the locator
\* returns for activeIndex, or stays as it is when the locator returns none;
\* a present activeElement is never cleared; and once an event has settled
\* activeElement is the locator's element for activeIndex whenever there is one.
C13_Resolve ==
    /\ [][ ( /\ pc = "effects"
             /\ \/ ~deps.mounted
                \/ deps.activeIndex # activeIndex
                \/ deps.listLength # listLength ) =>
            activeElement' =
                IF getSelectedElement(activeIndex) # null
                THEN getSelectedElement(activeIndex)
                ELSE activeElement ]_vars
    /\ [][ activeElement # null => activeElement' # null ]_vars
    /\ [] ( (Settled /\ getSelectedElement(activeIndex) # null) =>
                activeElement = getSelectedElement(activeIndex) )

\* The active index moved to an index the locator has no element for, and
\* the element resolved before is still held.
C13_Witness ==
    /\ Settled
    /\ last.op \in {"key", "set"}
    /\ activeIndex # last.activeIndex
    /\ listItemIndexAttribute # ""
    /\ getSelectedElement(activeIndex) = null
    /\ activeElement # null
    /\ activeElement = getSelectedElement(last.activeIndex)

\* C14: in the scenario (length 5, start at activeIndex 0, hoverIndex -1) the
\* ArrowDown events give activeIndex 1, 2, 3, 4 and then 0, the handleMove
\* over index 2 gives hoverIndex = activeIndex = 2, and the ArrowUp after it
\* gives activeIndex 1 and hoverIndex -1.  Each tuple is <<event, key or
\* target, activeIndex before, activeIndex after, hoverIndex after>>.
C14_EndToEnd ==
    <<last.op, last.key, last.activeIndex, activeIndex, hoverIndex>> \in
        { <<"mount", "", 0, 0, -1>>,
          <<"key", "ArrowDown", 0, 1, -1>>,
          <<"key", "ArrowDown", 1, 2, -1>>,
          <<"key", "ArrowDown", 2, 3, -1>>,
          <<"key", "ArrowDown", 3, 4, -1>>,
          <<"key", "ArrowDown", 4, 0, -1>>,
          <<"move", "2", 0, 2, 2>>,
          <<"key", "ArrowUp", 2, 1, -1>> }

\* The end of the scenario.
C14_Witness ==
    /\ Settled
    /\ listLength = 5
    /\ last.op = "key"
    /\ last.key = "ArrowUp"
    /\ last.afterMove = 2
    /\ last.hoverIndex = 2
    /\ activeIndex = 1
    /\ hoverIndex = -1

\* C15, as stated: after a handleMove resolving index k of the list and then
\* a handleLeave, with no event between them or before the key event, an
\* ArrowUp/ArrowDown key event meets hoverIndex -2, moves the active index to
\* (k - 1 + length) mod length, resp. (k + 1) mod length, and leaves the
\* hover index at -1.
C15_LeaveKeepsPosition ==
    [][ \A k \in 0 .. (listLength - 1) :
          ( /\ last.op = "leave"
            /\ last.afterMove = k
            /\ KeyEvent({"ArrowUp", "ArrowDown"}) ) =>
              /\ hoverIndex = -2
              /\ hoverIndex' = -1
              /\ last'.key = "ArrowUp" =>
                    activeIndex' = (k - 1 + listLength) % listLength
              /\ last'.key = "ArrowDown" =>
                    activeIndex' = (k + 1) % listLength ]_vars

\* C17, as stated: once an event has settled, a hover index >= 0 is the
\* active index.
C17_HoverIsActive ==
    (Settled /\ hoverIndex >= 0) => activeIndex = hoverIndex

\* C16: every scroll request asks for top = offsetTop - containerHeight +
\* offsetHeight of its element, with smooth behaviour; with the scroll
\* position at that value, or at 0 when it is negative, an element no taller
\* than the container has its bottom edge not below the visible bottom edge
\* and its top edge not above the visible top edge.
C16_ScrollIntoView ==
    \A j \in 1 .. Len(scrolls) :
        LET r == scrolls[j]
            t == OffsetTop(r.element)
            h == OffsetHeight(r.element)
            s == IF r.top < 0 THEN 0 ELSE r.top
        IN  /\ r.top = t - containerHeight + h
            /\ r.behavior = "smooth"
            /\ h <= containerHeight =>
                  /\ t + h <= s + containerHeight
                  /\ s <= t

\* A scroll request that really moves the view: a positive offset for an
\* item shorter than the container.
C16_Witness ==
    /\ Len(scrolls) > 0
    /\ scrolls[Len(scrolls)].top > 0
    /\ itemHeight > 0
    /\ itemHeight < containerHeight
    /\ scrolls[Len(scrolls)].element = getSelectedElement(activeIndex)

\* C18, as stated: every scroll request targets the element the locator
\* returns for the activeIndex current at the time of the request; none is
\* computed from the element of a previous activeIndex.
C18_ScrollTargetsCurrent ==
    \A j \in 1 .. Len(scrolls) :
        getSelectedElement(scrolls[j].activeIndex) # null =>
            scrolls[j].element = getSelectedElement(scrolls[j].activeIndex)

\* C19: with a non-empty list and activeIndex >= 0, stale or out-of-range
\* indices included, each of the six keys performs a transition: both
\* setters are called, activeIndex ends in [0, length) and hoverIndex at -1.
C19_KeyAlwaysTransitions ==
    [][ ( /\ KeyEvent(Keys)
          /\ listLength > 0
          /\ activeIndex >= 0 ) =>
            /\ last'.updates.activeIndex # {}
            /\ last'.updates.hoverIndex = {-1}
            /\ activeIndex' \in 0 .. (listLength - 1)
            /\ hoverIndex' = -1 ]_vars

\* A key has just been handled from an index beyond the end of the list.
C19_Witness ==
    /\ last.op = "key"
    /\ last.key \in Keys
    /\ listLength > 0
    /\ \/ last.activeIndex >= listLength
       \/ last.hoverIndex >= listLength
    /\ last.activeIndex >= 0
    /\ activeIndex \in 0 .. (listLength - 1)
    /\ hoverIndex = -1

\* The key event just handled moved activeIndex to an index whose element
\* the locator returns.
C20_KeyMoved ==
    /\ last.op = "key"
    /\ container
    /\ listLength > 0
    /\ activeIndex # last.activeIndex
    /\ getSelectedElement(activeIndex) # null

C20_ScrolledTo ==
    Cardinality({ j \in 1 .. Len(scrolls) :
        scrolls[j].element = getSelectedElement(activeIndex) })

\* C20: with the container attached and a non-empty list, after a key event
\* that moved activeIndex to an index whose element the locator returns, the
\* effects settle before any other event is handled, and whenever they have
\* settled activeElement is that element and exactly one scroll request to
\* it has been issued since the event.
C20_KeyScrolls ==
    /\ [] ( (Settled /\ C20_KeyMoved) =>
              /\ activeElement = getSelectedElement(activeIndex)
              /\ C20_ScrolledTo = 1 )
    /\ (pc = "effects" /\ C20_KeyMoved) ~>
           (Settled /\ C20_KeyMoved /\ C20_ScrolledTo = 1)

\* The effects of such a key event have settled, with a scroll to the new
\* element issued last.
C20_Witness ==
    /\ Settled
    /\ last.op = "key"
    /\ container
    /\ listLength > 0
    /\ activeIndex # last.activeIndex
    /\ getSelectedElement(activeIndex) # null
    /\ Len(scrolls) > 0
    /\ scrolls[Len(scrolls)].element = getSelectedElement(activeIndex)
    /\ scrolls[Len(scrolls)].activeIndex = activeIndex

====
